---- MODULE Spec2Model ----
(***************************************************************************)
(* Read-through / write-invalidate product catalogue:                      *)
(*   RedisService   (cache client: ioredis client + opossum breaker)       *)
(*   ProductResolver (products, product, category, reviews, variants,      *)
(*                    createProduct) over the pg pool and the cache client *)
(***************************************************************************)
EXTENDS Integers, Sequences, FiniteSets, TLC

VARIABLES
  isConnected,   \* RedisService.isConnected
  circuit,       \* opossum breaker: state, rolling stats, reset timer
  redis,         \* the backing key/value store: key -> entry
  redisUp,       \* whether the backing store answers commands
  lastCall,      \* the most recent RedisService call made directly by a client
  impl,          \* what '@/services/RedisService' is bound to in ProductResolver
  db,            \* the record store: committed rows and the id sequence
  req,           \* per request: operation, arguments, position, locals, log
  productData,   \* ProductResolver.productData (raw-row side table)
  workload       \* the operations the API layer calls in this behaviour

vars == <<isConnected, circuit, redis, redisUp, lastCall, impl, db, req,
          productData, workload>>

cacheVars == <<isConnected, circuit, redis>>

----------------------------------------------------------------------------
(* Bounds of the model *)

MaxProducts == 2     \* product INSERTs the id sequence serves
MaxVariants == 1     \* variants per CreateProductInput
MaxFires == 3        \* breaker calls counted in one rolling window

(* Program constants *)

BreakerTimeoutMs == 3000
ErrorThresholdPercentage == 50
ResetTimeoutS == 30
RollingWindowS == 10
ListTTL == 300
ProductTTL == 3600
CategoryTTL == 3600
ReviewsTTL == 1800
VariantsTTL == 1800
PoolMax == 20
DefaultLimit == 10
DefaultOffset == 0

HalfListTTL == ListTTL \div 2
AgeCap == ListTTL + HalfListTTL

NoExpiry == 0 - 1     \* an entry written without EX
Undefined == 0 - 2    \* an optional argument that was not supplied

----------------------------------------------------------------------------
(* Values: rows of the record store, domain objects, JSON *)

Null == [kind |-> "null"]
Val(v) == [kind |-> "value", v |-> v]

\* JSON.stringify of one object: a Date becomes its ISO string
ObjToJSON(o) ==
  IF "created_at" \in DOMAIN o /\ "date" \in DOMAIN o.created_at
  THEN [o EXCEPT !.created_at = [iso |-> @.date]]
  ELSE o

\* JSON.stringify followed by JSON.parse, on an object or a list of objects
ToJSON(v) ==
  IF "list" \in DOMAIN v
  THEN [list |-> [i \in DOMAIN v.list |-> ObjToJSON(v.list[i])]]
  ELSE ObjToJSON(v)

Stringify(v) == [json |-> ToJSON(v)]
Parse(s) == s.json

----------------------------------------------------------------------------
(* The backing key/value store (Redis commands) *)

Limits == {1, DefaultLimit}
Offsets == {DefaultOffset}
ProductIds == 1 .. MaxProducts
CategoryIds == {1, 2}    \* category ids an input may name

ProductsKey(limit, offset) ==
  "products:" \o ToString(limit) \o ":" \o ToString(offset)
ProductKey(id) == "product:" \o ToString(id)
CategoryKey(id) == "category:" \o ToString(id)
ReviewsKey(id) == "reviews:" \o ToString(id)
VariantsKey(id) == "variants:" \o ToString(id)
InvalidationKey == "products:*"

ListKeys == {ProductsKey(l, o) : l \in Limits, o \in Offsets}
CacheKeys ==
  ListKeys \cup {ProductKey(i) : i \in ProductIds}
           \cup {CategoryKey(c) : c \in CategoryIds}
           \cup {ReviewsKey(i) : i \in ProductIds}
           \cup {VariantsKey(i) : i \in ProductIds}
           \cup {InvalidationKey}

NoEntry == [present |-> FALSE, str |-> [json |-> Null], ttl |-> NoExpiry]
Entry(str, ttl) == [present |-> TRUE, str |-> str, ttl |-> ttl]

\* GET key
RedisGET(store, key) ==
  IF store[key].present THEN Val(store[key].str) ELSE Null

\* SET key str [EX seconds]
RedisSET(store, key, str, ex) == [store EXCEPT ![key] = Entry(str, ex)]

\* DEL key [key ...]: the keys are literal names, never patterns
RedisDEL(store, keys) ==
  [k \in DOMAIN store |-> IF k \in keys THEN NoEntry ELSE store[k]]

\* the store after d seconds: entries whose expiry has elapsed are gone
Expire(store, d) ==
  [k \in DOMAIN store |->
     IF ~store[k].present \/ store[k].ttl = NoExpiry THEN store[k]
     ELSE IF store[k].ttl <= d THEN NoEntry
     ELSE [store[k] EXCEPT !.ttl = @ - d]]

----------------------------------------------------------------------------
(* RedisService: ioredis client behind an opossum circuit breaker *)

ClientMethods == {"get", "set", "del", "ping", "quit"}

\* the arrow functions handed to circuitBreaker.fire by set, get and del
Thunk(body, key, keys, str, ex) ==
  [kind |-> "function", name |-> body, key |-> key, keys |-> keys,
   str |-> str, ex |-> ex]

Outcome(err, value, store, sent) ==
  [err |-> err, value |-> value, redis |-> store, sent |-> sent]

\* a command of the ioredis client against the backing store
ClientCommand(c, store) ==
  IF ~redisUp
  THEN Outcome("ECONNREFUSED", Null, store,
               <<IF c.name = "get" THEN "GET"
                 ELSE IF c.name = "set" THEN "SET" ELSE "DEL">>)
  ELSE IF c.name = "get"
  THEN Outcome("none", RedisGET(store, c.key), store, <<"GET">>)
  ELSE IF c.name = "set"
  THEN Outcome("none", Null,
               RedisSET(store, c.key, c.str,
                        IF c.ex # Undefined /\ c.ex # 0 THEN c.ex ELSE NoExpiry),
               <<"SET">>)
  ELSE Outcome("none", Null, RedisDEL(store, c.keys), <<"DEL">>)

\* the bodies of the arrow functions, were they run
RunThunk(t, store) == ClientCommand(t, store)

\* the breaker's action: (command, ...args) => this.client[command](...args).
\* A property lookup keyed by a function finds no client method, and calling
\* the undefined result throws a TypeError before any command is sent.
BreakerAction(command, store) ==
  IF command.kind = "name" /\ command.name \in ClientMethods
  THEN ClientCommand(command, store)
  ELSE Outcome("TypeError", Null, store, <<>>)

ClosedCircuit == [state |-> "closed", fires |-> 0, failures |-> 0,
                  cooldown |-> 0, windowAge |-> 0]

\* opossum: fail() opens the circuit when the error rate of the rolling
\* window exceeds the threshold, or on any failure while half-open
AfterFailure(c) ==
  LET f == c.failures + 1 IN
  IF c.state = "halfOpen" \/ f * 100 > ErrorThresholdPercentage * c.fires
  THEN [c EXCEPT !.failures = f, !.state = "open", !.cooldown = ResetTimeoutS]
  ELSE [c EXCEPT !.failures = f]

AfterSuccess(c) ==
  IF c.state = "halfOpen" THEN [c EXCEPT !.state = "closed"] ELSE c

\* circuitBreaker.fire(fn)
Fire(command, c, store) ==
  LET c1 == [c EXCEPT !.fires = @ + 1] IN
  IF c.state = "open"
  THEN Outcome("EOPENBREAKER", Null, store, <<>>) @@ [circuit |-> c1]
  ELSE LET r == BreakerAction(command, store) IN
       r @@ [circuit |-> IF r.err = "none" THEN AfterSuccess(c1)
                         ELSE AfterFailure(c1)]

\* ensureConnection(): one PING, outside the breaker, when the flag is false
EnsureConnection(connected) ==
  IF connected THEN [ok |-> TRUE, isConnected |-> TRUE, sent |-> <<>>]
  ELSE IF redisUp THEN [ok |-> TRUE, isConnected |-> TRUE, sent |-> <<"PING">>]
  ELSE [ok |-> FALSE, isConnected |-> FALSE, sent |-> <<"PING">>]

\* the common shape of get, set and del: ensureConnection, then fire
Guarded(command, connected, c, store) ==
  LET e == EnsureConnection(connected) IN
  IF ~e.ok
  THEN [err |-> "PingFailed", value |-> Null, redis |-> store, sent |-> e.sent,
        circuit |-> c, isConnected |-> e.isConnected]
  ELSE LET f == Fire(command, c, store) IN
       [err |-> f.err, value |-> f.value, redis |-> f.redis,
        sent |-> e.sent \o f.sent, circuit |-> f.circuit,
        isConnected |-> e.isConnected]

\* RedisService.get(key)
RedisServiceGet(key, connected, c, store) ==
  LET g == Guarded(Thunk("get", key, {}, Stringify(Null), Undefined),
                   connected, c, store) IN
  IF g.err # "none" THEN g
  ELSE IF g.value.kind = "null" THEN g
  ELSE [g EXCEPT !.value = Val(Parse(g.value.v))]

\* RedisService.set(key, value, expirationInSeconds)
RedisServiceSet(key, value, ex, connected, c, store) ==
  Guarded(Thunk("set", key, {}, Stringify(value), ex), connected, c, store)

\* RedisService.del(...keys)
RedisServiceDel(keys, connected, c, store) ==
  Guarded(Thunk("del", "", keys, Stringify(Null), Undefined), connected, c, store)

\* the test double of '@/services/RedisService' (get/set/del are jest.fn()),
\* scripted to resolve as the documented contract says or to reject
DoubleOutcome(r, ok) ==
  IF ok THEN r @@ [circuit |-> circuit, isConnected |-> isConnected]
  ELSE [err |-> "Rejected", value |-> Null, redis |-> redis, sent |-> <<>>,
        circuit |-> circuit, isConnected |-> isConnected]

DoubleGet(key, ok) ==
  LET v == RedisGET(redis, key) IN
  DoubleOutcome(Outcome("none", IF v.kind = "null" THEN Null ELSE Val(Parse(v.v)),
                        redis, <<>>), ok)

DoubleSet(key, value, ex, ok) ==
  DoubleOutcome(Outcome("none", Null,
                        RedisSET(redis, key, Stringify(value),
                                 IF ex = Undefined THEN NoExpiry ELSE ex),
                        <<>>), ok)

DoubleDel(keys, ok) ==
  DoubleOutcome(Outcome("none", Null, RedisDEL(redis, keys), <<>>), ok)

\* redisService.get / set / del as ProductResolver reaches them
CacheGet(key) ==
  IF impl = "RedisService"
  THEN {RedisServiceGet(key, isConnected, circuit, redis)}
  ELSE {DoubleGet(key, ok) : ok \in BOOLEAN}

CacheSet(key, value, ex) ==
  IF impl = "RedisService"
  THEN {RedisServiceSet(key, value, ex, isConnected, circuit, redis)}
  ELSE {DoubleSet(key, value, ex, ok) : ok \in BOOLEAN}

CacheDel(keys) ==
  IF impl = "RedisService"
  THEN {RedisServiceDel(keys, isConnected, circuit, redis)}
  ELSE {DoubleDel(keys, ok) : ok \in BOOLEAN}

\* the cache client's state after a call with outcome o
CacheAfter(o) ==
  /\ isConnected' = o.isConnected
  /\ circuit' = o.circuit
  /\ redis' = o.redis

----------------------------------------------------------------------------
(* The record store (PostgreSQL through the pg pool) *)

\* the rows of the categories table: category 2 has none
Categories == {1}
CategoryRow(c) == [id |-> c, name |-> "Kategorie", description |-> "d"]
ReviewRow(p) == [id |-> p, user_id |-> 1, rating |-> 5, comment |-> "ok",
                 created_at |-> [date |-> 0]]
ReviewedProducts == {1}

ProductRow(id, input) ==
  [id |-> id, name |-> input.name, category_id |-> input.categoryId,
   created_at |-> [date |-> id]]
VariantRow(pid, n) == [id |-> n, product_id |-> pid, color |-> "rot"]

List(seq) == [list |-> seq]
Reverse(seq) == [i \in 1 .. Len(seq) |-> seq[Len(seq) + 1 - i]]
Min(a, b) == IF a < b THEN a ELSE b

\* SELECT ... ORDER BY p.created_at DESC LIMIT $1 OFFSET $2
SelectProducts(products, limit, offset) ==
  LET r == Reverse(products) IN
  SubSeq(r, offset + 1, Min(Len(r), offset + limit))

\* SELECT ... WHERE p.id = $1: rows[0], or nothing
SelectProduct(products, id) ==
  LET hit == {i \in 1 .. Len(products) : products[i].id = id} IN
  IF hit = {} THEN Null ELSE Val(products[CHOOSE i \in hit : TRUE])

\* SELECT * FROM categories WHERE id = $1
SelectCategory(cid) ==
  IF cid \in Categories THEN <<CategoryRow(cid)>> ELSE <<>>

\* SELECT * FROM reviews WHERE product_id = $1
SelectReviews(products, pid) ==
  IF pid \in ReviewedProducts /\ SelectProduct(products, pid).kind = "value"
  THEN <<ReviewRow(pid)>> ELSE <<>>

\* SELECT * FROM product_variants WHERE product_id = $1
SelectVariants(variants, pid) ==
  LET n == Cardinality({v \in variants : v.product_id = pid}) IN
  [i \in 1 .. n |-> VariantRow(pid, i)]

mapProductDBToProduct(row) == [id |-> row.id, name |-> row.name]
mapCategoryDBToCategory(row) ==
  [id |-> row.id, name |-> row.name, description |-> row.description]
mapReviewDBToReview(row) ==
  [id |-> row.id, userId |-> row.user_id, rating |-> row.rating,
   comment |-> row.comment, createdAt |-> [iso |-> row.created_at.date]]
mapVariantDBToVariant(row) == [id |-> row.id, color |-> row.color]

MapRows(f(_), seq) == [i \in DOMAIN seq |-> f(seq[i])]

----------------------------------------------------------------------------
(* ProductResolver: the read operations *)

Procs == {"a", "b"}
Sequential == {"a"}
ReadOps == {"products", "product", "category", "reviews", "variants"}

NoInput == [name |-> "", price |-> 0, stock |-> 0, categoryId |-> 0,
            variants |-> 0]
NoRet == [kind |-> "none", v |-> Null, err |-> ""]
Returned(v) == [kind |-> "value", v |-> v, err |-> ""]
ReturnedNull == [kind |-> "null", v |-> Null, err |-> ""]
Thrown(e) == [kind |-> "error", v |-> Null, err |-> e]

Idle == [op |-> "idle", pc |-> "idle", limit |-> 0, offset |-> 0, id |-> 0,
         input |-> NoInput, key |-> "", cached |-> NoRet, rows |-> <<>>,
         qlen |-> 0,
         product |-> Null, i |-> 0, failed |-> "", ret |-> NoRet, log |-> <<>>]

Finish(r, ret) == [r EXCEPT !.pc = "done", !.ret = ret]
Logged(r, e) == [r EXCEPT !.log = Append(@, e)]

KeyOf_Shared(op, limit, offset, id) == ProductsKey(DefaultLimit, DefaultOffset)

\* the cache key of a read operation
KeyOf(op, limit, offset, id) ==
  IF op = "products" THEN ProductsKey(limit, offset)
  ELSE IF op = "product" THEN ProductKey(id)
  ELSE IF op = "category" THEN CategoryKey(productData[id].v.category_id)
  ELSE IF op = "reviews" THEN ReviewsKey(id)
  ELSE VariantsKey(id)

TTLOf_NoExpiry(op) == Undefined
TTLOf_Uniform(op) == ProductTTL

\* the expiry, in seconds, each read operation passes to redisService.set
TTLOf(op) ==
  IF op = "products" THEN ListTTL
  ELSE IF op = "product" THEN ProductTTL
  ELSE IF op = "category" THEN CategoryTTL
  ELSE IF op = "reviews" THEN ReviewsTTL
  ELSE VariantsTTL

\* pool.query of a read operation against the committed rows
QueryOf(r, products, variants) ==
  IF r.op = "products" THEN SelectProducts(products, r.limit, r.offset)
  ELSE IF r.op = "product"
  THEN (IF SelectProduct(products, r.id).kind = "value"
        THEN <<SelectProduct(products, r.id).v>> ELSE <<>>)
  ELSE IF r.op = "category"
  THEN SelectCategory(productData[r.id].v.category_id)
  ELSE IF r.op = "reviews" THEN SelectReviews(products, r.id)
  ELSE SelectVariants(variants, r.id)

\* the value a read operation hands to redisService.set
PayloadOf(op, rows) ==
  IF op = "products" THEN List(rows)
  ELSE IF op = "product" THEN rows[1]
  ELSE IF op = "category" THEN mapCategoryDBToCategory(rows[1])
  ELSE IF op = "reviews" THEN List(MapRows(mapReviewDBToReview, rows))
  ELSE List(MapRows(mapVariantDBToVariant, rows))

ResultOf_RawRows(op, rows) == PayloadOf(op, rows)

\* the value a read operation returns after a store query
ResultOf(op, rows) ==
  IF op = "products" THEN List(MapRows(mapProductDBToProduct, rows))
  ELSE PayloadOf(op, rows)

ServeFromCache_Ignored(r, value) == [r EXCEPT !.pc = "query"]

\* what a call does with the value redisService.get resolved to
ServeFromCache(r, value) == Finish(r, Returned(value.v))

\* a resolver call begins; category() first consults the raw-row side table
StartRead(p, op, limit, offset, id) ==
  /\ req[p].pc \in {"idle", "done"}
  /\ op \in ReadOps \cap workload
  /\ IF op = "category" /\ productData[id].kind = "null"
     THEN req' = [req EXCEPT ![p] =
            Finish([Idle EXCEPT !.op = op, !.id = id],
                   Thrown("Product data not found"))]
     ELSE req' = [req EXCEPT ![p] =
            [Idle EXCEPT !.op = op, !.pc = "get",
                         !.limit = IF op = "products" THEN limit ELSE 0,
                         !.offset = IF op = "products" THEN offset ELSE 0,
                         !.id = IF op = "products" THEN 0 ELSE id,
                         !.key = KeyOf(op, limit, offset, id)]]
  /\ UNCHANGED <<isConnected, circuit, redis, redisUp, lastCall, impl, db,
                 productData, workload>>

\* await redisService.get(cacheKey); if (cached) return cached
ReadGet(p) ==
  /\ req[p].pc = "get"
  /\ impl = "RedisService" => circuit.fires < MaxFires
  /\ \E o \in CacheGet(req[p].key) :
       /\ CacheAfter(o)
       /\ req' = [req EXCEPT ![p] =
            IF o.err # "none"
            THEN Finish([Logged(@, "get!") EXCEPT !.cached = Thrown(o.err)],
                        Thrown(o.err))
            ELSE IF o.value.kind = "value"
            THEN ServeFromCache(
                   [Logged(@, "get") EXCEPT !.cached = Returned(o.value.v)],
                   o.value)
            ELSE [Logged(@, "get") EXCEPT !.pc = "query", !.cached = ReturnedNull]]
  /\ UNCHANGED <<redisUp, lastCall, impl, db, productData, workload>>

\* await pool.query(query, args), then what each operation does with no row
ReadQuery(p) ==
  /\ req[p].pc = "query"
  /\ \E ok \in BOOLEAN :
       LET r == req[p]
           rows == QueryOf(r, db.products, db.variants) IN
       req' = [req EXCEPT ![p] =
         IF ~ok THEN Finish(Logged(r, "query!"), Thrown("StoreQueryFailed"))
         ELSE LET q == [Logged(r, "query") EXCEPT
                          !.rows = rows, !.qlen = Len(db.products)] IN
              IF r.op = "product" /\ rows = <<>> THEN Finish(q, ReturnedNull)
              ELSE IF r.op = "category" /\ rows = <<>>
              THEN Finish(q, Thrown("TypeError"))
              ELSE [q EXCEPT !.pc = "set"]]
  /\ UNCHANGED <<isConnected, circuit, redis, redisUp, lastCall, impl, db,
                 productData, workload>>

\* products() fills the side table after the cache write
SideTableAfter(r) ==
  IF r.op = "products"
  THEN [i \in DOMAIN productData |->
          IF \E k \in DOMAIN r.rows : r.rows[k].id = i
          THEN Val(r.rows[CHOOSE k \in DOMAIN r.rows : r.rows[k].id = i])
          ELSE productData[i]]
  ELSE productData

\* await redisService.set(cacheKey, payload, ttl); return result
ReadSet(p) ==
  /\ req[p].pc = "set"
  /\ impl = "RedisService" => circuit.fires < MaxFires
  /\ \E o \in CacheSet(req[p].key, PayloadOf(req[p].op, req[p].rows),
                       TTLOf(req[p].op)) :
       /\ CacheAfter(o)
       /\ IF o.err # "none"
          THEN /\ req' = [req EXCEPT ![p] =
                   Finish(Logged(@, "set!"), Thrown(o.err))]
               /\ UNCHANGED productData
          ELSE /\ req' = [req EXCEPT ![p] =
                   Finish(Logged(@, "set"),
                          Returned(ResultOf(req[p].op, req[p].rows)))]
               /\ productData' = SideTableAfter(req[p])
  /\ UNCHANGED <<redisUp, lastCall, impl, db, workload>>

----------------------------------------------------------------------------
(* ProductResolver.createProduct *)

Prices == {0, 100}
\* an input naming a category that has no row
DanglingInput == [name |-> "Neues Produkt", price |-> 100, stock |-> 50,
                  categoryId |-> 2, variants |-> 0]
Inputs ==
  {[name |-> "Neues Produkt", price |-> pr, stock |-> 50, categoryId |-> c,
    variants |-> n] : pr \in Prices, c \in Categories, n \in 0 .. MaxVariants}
    \cup {DanglingInput}

Validate_Accepts(input) == TRUE

\* productSchema.validate(input): the numeric constraints of the schema
Validate(input) == input.price > 0 /\ input.stock >= 0

HeldClients == Cardinality({p \in Procs :
  \/ req[p].op = "createProduct"
       /\ req[p].pc \in {"begin", "insert", "variant", "commit", "del", "rollback"}
  \/ req[p].op = "transaction"
       /\ req[p].pc \in {"tx-begin", "tx-callback", "tx-commit", "tx-rollback"}})

StartCreate(p, input) ==
  /\ req[p].pc \in {"idle", "done"}
  /\ "createProduct" \in workload
  /\ db.nextId <= MaxProducts
  /\ req' = [req EXCEPT ![p] =
       [Idle EXCEPT !.op = "createProduct", !.pc = "validate", !.input = input]]
  /\ UNCHANGED <<isConnected, circuit, redis, redisUp, lastCall, impl, db,
                 productData, workload>>

\* await productSchema.validate(input)
CreateValidate(p) ==
  /\ req[p].pc = "validate"
  /\ req' = [req EXCEPT ![p] =
       IF Validate(@.input) THEN [@ EXCEPT !.pc = "connect"]
       ELSE Finish(Logged(@, "validate!"), Thrown("ValidationError"))]
  /\ UNCHANGED <<isConnected, circuit, redis, redisUp, lastCall, impl, db,
                 productData, workload>>

\* const client = await pool.connect()
CreateConnect(p) ==
  /\ req[p].pc = "connect"
  /\ HeldClients < PoolMax
  /\ \E ok \in BOOLEAN :
       req' = [req EXCEPT ![p] =
         IF ok THEN [Logged(@, "connect") EXCEPT !.pc = "begin"]
         ELSE Finish(Logged(@, "connect!"), Thrown("ConnectFailed"))]
  /\ UNCHANGED <<isConnected, circuit, redis, redisUp, lastCall, impl, db,
                 productData, workload>>

Caught_Invalidates(r, stmt) ==
  [Logged(r, stmt \o "!") EXCEPT !.pc = "del", !.failed = "StoreQueryFailed"]

\* a statement of the transaction failed: control passes to the catch block
Caught(r, stmt) ==
  [Logged(r, stmt \o "!") EXCEPT !.pc = "rollback", !.failed = "StoreQueryFailed"]

\* await client.query('BEGIN')
CreateBegin(p) ==
  /\ req[p].pc = "begin"
  /\ \E ok \in BOOLEAN :
       req' = [req EXCEPT ![p] =
         IF ok THEN [Logged(@, "BEGIN") EXCEPT !.pc = "insert"]
         ELSE Caught(@, "BEGIN")]
  /\ UNCHANGED <<isConnected, circuit, redis, redisUp, lastCall, impl, db,
                 productData, workload>>

AfterProductInsert_NoVariants(input) == "commit"

\* if (input.variants?.length): the variant INSERTs, or straight to COMMIT
AfterProductInsert(input) ==
  IF input.variants > 0 THEN "variant" ELSE "commit"

\* INSERT INTO products ... RETURNING *; the row gets the next id
CreateInsert(p) ==
  /\ req[p].pc = "insert"
  /\ \E ok \in BOOLEAN :
       IF ok
       THEN /\ req' = [req EXCEPT ![p] =
                 [Logged(@, "INSERT product") EXCEPT
                    !.product = Val(ProductRow(db.nextId, req[p].input)),
                    !.i = 0,
                    !.pc = AfterProductInsert(req[p].input)]]
            /\ db' = [db EXCEPT !.nextId = @ + 1,
                                !.want[db.nextId] = req[p].input.variants]
       ELSE /\ req' = [req EXCEPT ![p] = Caught(@, "INSERT product")]
            /\ UNCHANGED db
  /\ UNCHANGED <<isConnected, circuit, redis, redisUp, lastCall, impl,
                 productData, workload>>

\* for (const variant of input.variants) await client.query(variantQuery, ...)
CreateVariant(p) ==
  /\ req[p].pc = "variant"
  /\ \E ok \in BOOLEAN :
       req' = [req EXCEPT ![p] =
         IF ok
         THEN [Logged(@, "INSERT variant") EXCEPT
                 !.i = @ + 1,
                 !.pc = IF req[p].i + 1 < req[p].input.variants
                        THEN "variant" ELSE "commit"]
         ELSE Caught(@, "INSERT variant")]
  /\ UNCHANGED <<isConnected, circuit, redis, redisUp, lastCall, impl, db,
                 productData, workload>>

Committed_ProductOnly(d, r) ==
  [d EXCEPT !.products = Append(@, r.product.v), !.age = Append(@, 0)]

\* the rows a COMMIT makes durable: the product and the variants inserted so far
Committed(d, r) ==
  [d EXCEPT !.products = Append(@, r.product.v),
            !.age = Append(@, 0),
            !.variants = @ \cup {[product_id |-> r.product.v.id, n |-> k] :
                                   k \in 1 .. r.i}]

\* await client.query('COMMIT')
CreateCommit(p) ==
  /\ req[p].pc = "commit"
  /\ \E ok \in BOOLEAN :
       IF ok
       THEN /\ req' = [req EXCEPT ![p] = [Logged(@, "COMMIT") EXCEPT !.pc = "del"]]
            /\ db' = Committed(db, req[p])
       ELSE /\ req' = [req EXCEPT ![p] = Caught(@, "COMMIT")]
            /\ UNCHANGED db
  /\ UNCHANGED <<isConnected, circuit, redis, redisUp, lastCall, impl,
                 productData, workload>>

\* the keys createProduct hands to redisService.del
InvalidatedKeys == {InvalidationKey}

DelRejected_Leaks(r, err) == Finish(Logged(r, "del!"), Thrown(err))

\* what createProduct does when redisService.del rejects
DelRejected(r, err) ==
  [Logged(r, "del!") EXCEPT !.pc = "rollback", !.failed = err]

\* await redisService.del('products:*'); return product; finally release
CreateInvalidate(p) ==
  /\ req[p].pc = "del"
  /\ impl = "RedisService" => circuit.fires < MaxFires
  /\ \E o \in CacheDel(InvalidatedKeys) :
       /\ CacheAfter(o)
       /\ req' = [req EXCEPT ![p] =
            IF o.err = "none"
            THEN Finish(Logged(Logged(@, "del"), "release"), Returned(@.product.v))
            ELSE DelRejected(@, o.err)]
  /\ UNCHANGED <<redisUp, lastCall, impl, db, productData, workload>>

\* catch: await client.query('ROLLBACK'); throw error; finally release
CreateRollback(p) ==
  /\ req[p].pc = "rollback"
  /\ \E ok \in BOOLEAN :
       req' = [req EXCEPT ![p] =
         IF ok
         THEN Finish(Logged(Logged(@, "ROLLBACK"), "release"), Thrown(@.failed))
         ELSE Finish(Logged(Logged(@, "ROLLBACK!"), "release"),
                     Thrown("RollbackFailed"))]
  /\ UNCHANGED <<isConnected, circuit, redis, redisUp, lastCall, impl, db,
                 productData, workload>>

----------------------------------------------------------------------------
(* Database.transaction(callback) *)

StartTransaction(p) ==
  /\ req[p].pc \in {"idle", "done"}
  /\ "transaction" \in workload
  /\ req' = [req EXCEPT ![p] =
       [Idle EXCEPT !.op = "transaction", !.pc = "tx-connect"]]
  /\ UNCHANGED <<isConnected, circuit, redis, redisUp, lastCall, impl, db,
                 productData, workload>>

\* const client = await pool.connect()
TxConnect(p) ==
  /\ req[p].pc = "tx-connect"
  /\ HeldClients < PoolMax
  /\ \E ok \in BOOLEAN :
       req' = [req EXCEPT ![p] =
         IF ok THEN [Logged(@, "connect") EXCEPT !.pc = "tx-begin"]
         ELSE Finish(Logged(@, "connect!"), Thrown("ConnectFailed"))]
  /\ UNCHANGED <<isConnected, circuit, redis, redisUp, lastCall, impl, db,
                 productData, workload>>

\* a step of the try block rejected: control passes to the catch block
TxCaught(r, stmt, err) ==
  [Logged(r, stmt \o "!") EXCEPT !.pc = "tx-rollback", !.failed = err]

\* await client.query('BEGIN')
TxBegin(p) ==
  /\ req[p].pc = "tx-begin"
  /\ \E ok \in BOOLEAN :
       req' = [req EXCEPT ![p] =
         IF ok THEN [Logged(@, "BEGIN") EXCEPT !.pc = "tx-callback"]
         ELSE TxCaught(@, "BEGIN", "StoreQueryFailed")]
  /\ UNCHANGED <<isConnected, circuit, redis, redisUp, lastCall, impl, db,
                 productData, workload>>

\* const result = await callback(client)
TxCallback(p) ==
  /\ req[p].pc = "tx-callback"
  /\ \E ok \in BOOLEAN :
       req' = [req EXCEPT ![p] =
         IF ok THEN [Logged(@, "callback") EXCEPT !.pc = "tx-commit"]
         ELSE TxCaught(@, "callback", "CallbackFailed")]
  /\ UNCHANGED <<isConnected, circuit, redis, redisUp, lastCall, impl, db,
                 productData, workload>>

\* await client.query('COMMIT'); return result; finally release
TxCommit(p) ==
  /\ req[p].pc = "tx-commit"
  /\ \E ok \in BOOLEAN :
       req' = [req EXCEPT ![p] =
         IF ok
         THEN Finish(Logged(Logged(@, "COMMIT"), "release"), Returned(Null))
         ELSE TxCaught(@, "COMMIT", "StoreQueryFailed")]
  /\ UNCHANGED <<isConnected, circuit, redis, redisUp, lastCall, impl, db,
                 productData, workload>>

\* catch: await client.query('ROLLBACK'); throw error; finally release
TxRollback(p) ==
  /\ req[p].pc = "tx-rollback"
  /\ \E ok \in BOOLEAN :
       req' = [req EXCEPT ![p] =
         IF ok
         THEN Finish(Logged(Logged(@, "ROLLBACK"), "release"), Thrown(@.failed))
         ELSE Finish(Logged(Logged(@, "ROLLBACK!"), "release"),
                     Thrown("RollbackFailed"))]
  /\ UNCHANGED <<isConnected, circuit, redis, redisUp, lastCall, impl, db,
                 productData, workload>>

----------------------------------------------------------------------------
(* Time, the backing store's health, connection events *)

AdvanceCircuit_Closes(c, d) == IF c.state = "open" THEN ClosedCircuit ELSE c

\* the breaker after d seconds: the rolling window ages out, and the reset
\* timer moves an open circuit to half-open
AdvanceCircuit(c, d) ==
  LET aged == IF c.fires = 0 THEN c
              ELSE IF c.windowAge + d >= RollingWindowS
              THEN [c EXCEPT !.fires = 0, !.failures = 0, !.windowAge = 0]
              ELSE [c EXCEPT !.windowAge = @ + d] IN
  IF aged.state # "open" THEN aged
  ELSE IF aged.cooldown <= d
  THEN [aged EXCEPT !.state = "halfOpen", !.cooldown = 0]
  ELSE [aged EXCEPT !.cooldown = @ - d]

\* how long each committed row has been durable, up to AgeCap
Older(d, s) == [d EXCEPT !.age = [i \in DOMAIN @ |-> Min(@[i] + s, AgeCap)]]

Tick(d) ==
  /\ redis' = Expire(redis, d)
  /\ circuit' = AdvanceCircuit(circuit, d)
  /\ db' = Older(db, d)
  /\ UNCHANGED <<isConnected, redisUp, lastCall, impl, req, productData, workload>>

RedisDown ==
  /\ redisUp /\ redisUp' = FALSE
  /\ UNCHANGED <<isConnected, circuit, redis, lastCall, impl, db, req,
                 productData, workload>>

RedisUp ==
  /\ ~redisUp /\ redisUp' = TRUE
  /\ UNCHANGED <<isConnected, circuit, redis, lastCall, impl, db, req,
                 productData, workload>>

\* client.on('connect')
OnConnect ==
  /\ redisUp /\ isConnected' = TRUE
  /\ UNCHANGED <<circuit, redis, redisUp, lastCall, impl, db, req, productData, workload>>

\* client.on('error')
OnError ==
  /\ isConnected' = FALSE
  /\ UNCHANGED <<circuit, redis, redisUp, lastCall, impl, db, req, productData, workload>>

\* client.on('end')
OnEnd ==
  /\ isConnected' = FALSE
  /\ UNCHANGED <<circuit, redis, redisUp, lastCall, impl, db, req, productData, workload>>

----------------------------------------------------------------------------
(* RedisService called directly *)

NoCall == [op |-> "none", key |-> "", keys |-> {}, ex |-> Undefined,
           arg |-> Null, err |-> "none", value |-> Null, sent |-> <<>>,
           stateBefore |-> "closed", connectedBefore |-> FALSE,
           upBefore |-> TRUE, before |-> NoEntry]

Expiries == {Undefined, 0, 1, 2}
DirectKeys == {ProductKey(1), InvalidationKey}
DirectValues == {ProductRow(1, [name |-> "Neues Produkt", categoryId |-> 1]),
                 List(<<>>)}

Called(op, key, keys, ex, arg, o) ==
  /\ CacheAfter(o)
  /\ lastCall' = [op |-> op, key |-> key, keys |-> keys, ex |-> ex,
                  arg |-> Val(arg), err |-> o.err, value |-> o.value,
                  sent |-> o.sent, stateBefore |-> circuit.state,
                  connectedBefore |-> isConnected, upBefore |-> redisUp,
                  before |-> IF key \in DOMAIN redis THEN redis[key] ELSE NoEntry]
  /\ UNCHANGED <<redisUp, impl, db, req, productData, workload>>

GetCall(key) ==
  /\ circuit.fires < MaxFires
  /\ Called("get", key, {}, Undefined, Null,
            RedisServiceGet(key, isConnected, circuit, redis))

SetCall(key, value, ex) ==
  /\ circuit.fires < MaxFires
  /\ Called("set", key, {}, ex, value,
            RedisServiceSet(key, value, ex, isConnected, circuit, redis))

DelCall(keys) ==
  /\ circuit.fires < MaxFires
  /\ Called("del", "", keys, Undefined, Null,
            RedisServiceDel(keys, isConnected, circuit, redis))

\* RedisService.close(): quit the client when the flag says it is connected.
\* quit is answered when the backing store is reachable; otherwise it may
\* resolve or reject.
RedisServiceClose(connected, c, store, ok) ==
  IF ~connected
  THEN [err |-> "none", value |-> Null, redis |-> store, sent |-> <<>>,
        circuit |-> c, isConnected |-> FALSE]
  ELSE IF ok
  THEN [err |-> "none", value |-> Null, redis |-> store, sent |-> <<"QUIT">>,
        circuit |-> c, isConnected |-> FALSE]
  ELSE [err |-> "QuitFailed", value |-> Null, redis |-> store,
        sent |-> <<"QUIT">>, circuit |-> c, isConnected |-> TRUE]

CloseCall ==
  \E ok \in IF redisUp THEN {TRUE} ELSE BOOLEAN :
    Called("close", "", {}, Undefined, Null,
           RedisServiceClose(isConnected, circuit, redis, ok))

----------------------------------------------------------------------------
(* Specifications *)

\* the operations one behaviour mixes: each read operation with the mutation,
\* and category() with the list query that fills its side table
Workloads ==
  {{"products", "createProduct"}, {"product", "createProduct"},
   {"products", "category", "createProduct"}, {"reviews", "createProduct"},
   {"variants", "createProduct"}}

ReadIds == {1}

\* the inputs a workload creates products from: the category of a product
\* matters only where category() resolves it
InputsOf(w) ==
  IF "category" \in w THEN Inputs ELSE Inputs \ {DanglingInput}

EmptyDb == [products |-> <<>>, age |-> <<>>, variants |-> {}, nextId |-> 1,
            want |-> [i \in ProductIds |-> 0]]

Start ==
  /\ isConnected = FALSE
  /\ circuit = ClosedCircuit
  /\ redis = [k \in CacheKeys |-> NoEntry]
  /\ redisUp = TRUE
  /\ lastCall = NoCall
  /\ db = EmptyDb
  /\ req = [p \in Procs |-> Idle]
  /\ productData = [i \in ProductIds |-> Null]

Impls == {"RedisService", "double"}

Init == Start /\ impl \in Impls /\ workload \in Workloads

\* the resolver's calls, step by step, over the cache client and the store
Next ==
  \/ \E p \in Sequential, op \in ReadOps, l \in Limits, o \in Offsets,
        i \in ReadIds : StartRead(p, op, l, o, i)
  \/ \E p \in Sequential : ReadGet(p)
  \/ \E p \in Sequential : ReadQuery(p)
  \/ \E p \in Sequential : ReadSet(p)
  \/ \E p \in Sequential, input \in InputsOf(workload) : StartCreate(p, input)
  \/ \E p \in Sequential : CreateValidate(p)
  \/ \E p \in Sequential : CreateConnect(p)
  \/ \E p \in Sequential : CreateBegin(p)
  \/ \E p \in Sequential : CreateInsert(p)
  \/ \E p \in Sequential : CreateVariant(p)
  \/ \E p \in Sequential : CreateCommit(p)
  \/ \E p \in Sequential : CreateInvalidate(p)
  \/ \E p \in Sequential : CreateRollback(p)
  \/ Tick(ReviewsTTL)
  \/ (impl = "RedisService" /\ RedisDown)
  \/ (impl = "RedisService" /\ RedisUp)

Spec == Init /\ [][Next]_vars

\* RedisService alone: direct calls, connection events, the clock
InitCache == Start /\ impl = "RedisService" /\ workload = {}

NextCache ==
  \/ \E k \in DirectKeys : GetCall(k)
  \/ \E k \in DirectKeys, v \in DirectValues, ex \in Expiries : SetCall(k, v, ex)
  \/ \E k \in DirectKeys : DelCall({k})
  \/ CloseCall
  \/ \E d \in {RollingWindowS, ResetTimeoutS} : Tick(d)
  \/ RedisDown
  \/ RedisUp
  \/ OnConnect
  \/ OnError
  \/ OnEnd

SpecCache == InitCache /\ [][NextCache]_vars

\* RedisService with calls that keep being made and timers that keep firing
FairCache ==
  /\ WF_vars(\E k \in DirectKeys : GetCall(k))
  /\ WF_vars(\E k \in DirectKeys, v \in DirectValues, ex \in Expiries :
               SetCall(k, v, ex))
  /\ WF_vars(\E k \in DirectKeys : DelCall({k}))
  /\ WF_vars(Tick(RollingWindowS))
  /\ WF_vars(Tick(ResetTimeoutS))

SpecCacheLive == InitCache /\ [][NextCache]_vars /\ FairCache

\* a list read and a createProduct call in flight together, over a cache
\* client that honours its contract, while time passes between any two steps
InitRace == Start /\ impl = "double" /\ workload = {"products", "createProduct"}

Readers == {"a"}
Writers == {"b"}
\* inputs without variants, in a category that has a row: neither variant
\* rows nor category rows appear in a product list
ListInputs ==
  {input \in Inputs : input.variants = 0 /\ input.categoryId \in Categories}

NextRace ==
  \/ \E p \in Readers, l \in Limits, o \in Offsets :
        StartRead(p, "products", l, o, 0)
  \/ \E p \in Readers : ReadGet(p)
  \/ \E p \in Readers : ReadQuery(p)
  \/ \E p \in Readers : ReadSet(p)
  \/ \E p \in Writers, input \in ListInputs : StartCreate(p, input)
  \/ \E p \in Writers : CreateValidate(p)
  \/ \E p \in Writers : CreateConnect(p)
  \/ \E p \in Writers : CreateBegin(p)
  \/ \E p \in Writers : CreateInsert(p)
  \/ \E p \in Writers : CreateCommit(p)
  \/ \E p \in Writers : CreateInvalidate(p)
  \/ \E p \in Writers : CreateRollback(p)
  \/ Tick(HalfListTTL)

SpecRace == InitRace /\ [][NextRace]_vars

\* mutations in flight together on the shared pool: createProduct calls and
\* Database.transaction calls
InitPool ==
  Start /\ impl = "double" /\ workload = {"createProduct", "transaction"}

\* inputs that pass validation, without variants and with the most
PoolInputs ==
  {input \in InputsOf(workload) :
     Validate(input) /\ input.variants \in {0, MaxVariants}}

NextPool ==
  \/ \E p \in Procs, input \in PoolInputs : StartCreate(p, input)
  \/ \E p \in Procs : CreateValidate(p)
  \/ \E p \in Procs : CreateConnect(p)
  \/ \E p \in Procs : CreateBegin(p)
  \/ \E p \in Procs : CreateInsert(p)
  \/ \E p \in Procs : CreateVariant(p)
  \/ \E p \in Procs : CreateCommit(p)
  \/ \E p \in Procs : CreateInvalidate(p)
  \/ \E p \in Procs : CreateRollback(p)
  \/ \E p \in Procs : StartTransaction(p)
  \/ \E p \in Procs : TxConnect(p)
  \/ \E p \in Procs : TxBegin(p)
  \/ \E p \in Procs : TxCallback(p)
  \/ \E p \in Procs : TxCommit(p)
  \/ \E p \in Procs : TxRollback(p)

SpecPool == InitPool /\ [][NextPool]_vars

----------------------------------------------------------------------------
(* Properties *)

Has(log, e) == \E i \in DOMAIN log : log[i] = e
Count(log, e) == Cardinality({i \in DOMAIN log : log[i] = e})
Reading(p) == req[p].op \in ReadOps
Creating(p) == req[p].op = "createProduct"
Completes(p) == req[p].pc # "done" /\ req'[p].pc = "done"

\* C1: a read whose cache get resolves to a present value returns exactly
\* that value, and the call issues no store query and no cache set: the get
\* is the only thing it did.
C1_CacheShortCircuit ==
  \A p \in Procs :
    (Reading(p) /\ req[p].cached.kind = "value")
      => /\ req[p].pc = "done"
         /\ req[p].ret = Returned(req[p].cached.v)
         /\ req[p].log = <<"get">>

C1_Witness ==
  \E p \in Procs :
    /\ req[p].op = "category" /\ req[p].pc = "done"
    /\ req[p].cached.kind = "value"
    /\ req[p].ret.kind = "value"

\* what a direct read of the store yields for a call, from the rows that were
\* committed when the call queried the store
CommittedAt(n) == SubSeq(db.products, 1, n)
VariantsAt(n) ==
  {v \in db.variants :
     \E i \in 1 .. n : db.products[i].id = v.product_id}
DirectRead(r) ==
  LET ps == CommittedAt(r.qlen) IN
  IF r.op = "products"
  THEN Returned(List(MapRows(mapProductDBToProduct,
                             SelectProducts(ps, r.limit, r.offset))))
  ELSE IF r.op = "product"
  THEN (IF SelectProduct(ps, r.id).kind = "value"
        THEN Returned(SelectProduct(ps, r.id).v) ELSE ReturnedNull)
  ELSE IF r.op = "category"
  THEN (IF SelectCategory(productData[r.id].v.category_id) = <<>>
        THEN ReturnedNull
        ELSE Returned(mapCategoryDBToCategory(
                        SelectCategory(productData[r.id].v.category_id)[1])))
  ELSE IF r.op = "reviews"
  THEN Returned(List(MapRows(mapReviewDBToReview, SelectReviews(ps, r.id))))
  ELSE Returned(List(MapRows(mapVariantDBToVariant,
                             SelectVariants(VariantsAt(r.qlen), r.id))))

Missed(r) == r.op \in ReadOps /\ r.cached.kind = "null"
NotFound(r) == r.op \in {"product", "category"} /\ r.rows = <<>>

TxnFailures == {"validate!", "connect!", "BEGIN!", "INSERT product!",
                "INSERT variant!", "COMMIT!"}
TxnFailed(log) == \E e \in TxnFailures : Has(log, e)
DelIssued(log) == Has(log, "del") \/ Has(log, "del!")

\* C3: createProduct calls redisService.del only after COMMIT has succeeded;
\* a call in which validation, pool.connect, BEGIN, an INSERT or COMMIT
\* failed issues no del, and none of its steps changes the cache contents.
C3_InvalidateAfterCommit ==
  /\ [](\A p \in Procs :
          Creating(p) =>
            /\ \A i \in DOMAIN req[p].log :
                 req[p].log[i] \in {"del", "del!"}
                   => \E j \in 1 .. i - 1 : req[p].log[j] = "COMMIT"
            /\ TxnFailed(req[p].log) => ~DelIssued(req[p].log))
  /\ [][\A p \in Procs :
          (Creating(p) /\ req'[p] # req[p] /\ redis' # redis)
            => (req[p].pc = "del" /\ Has(req[p].log, "COMMIT")
                  /\ ~TxnFailed(req[p].log))]_vars

C3_Witness ==
  \E p \in Procs :
    /\ Creating(p) /\ req[p].pc = "done" /\ req[p].ret.kind = "error"
    /\ Has(req[p].log, "COMMIT!") /\ Has(req[p].log, "ROLLBACK")
    /\ \E k \in ListKeys : redis[k].present

\* C4 as stated: when createProduct has committed and its invalidation call
\* succeeded, no entry is left under any products:{limit}:{offset} key.
C4_ListKeysInvalidated ==
  [][\A p \in Procs :
       (Creating(p) /\ Completes(p) /\ req'[p].ret.kind = "value"
          /\ Has(req'[p].log, "COMMIT") /\ Has(req'[p].log, "del"))
         => \A k \in ListKeys : ~redis'[k].present]_vars

\* C5 as stated: a read whose cache get or cache set failed, and whose store
\* query was not refused, returns the store's result like a miss would.
C5_CacheFailureIsAMiss ==
  \A p \in Procs :
    (Reading(p) /\ req[p].pc = "done"
       /\ (Has(req[p].log, "get!") \/ Has(req[p].log, "set!"))
       /\ ~Has(req[p].log, "query!"))
      => /\ req[p].ret.kind # "error"
         /\ Count(req[p].log, "query") = 1

\* C6 as stated: when COMMIT succeeded and the invalidation failed,
\* createProduct returns the created product, issues no ROLLBACK, and the
\* product stays committed.
C6_InvalidationFailureNonFatal ==
  \A p \in Procs :
    (Creating(p) /\ req[p].pc = "done" /\ Has(req[p].log, "COMMIT")
       /\ Has(req[p].log, "del!"))
      => /\ req[p].ret = Returned(req[p].product.v)
         /\ ~Has(req[p].log, "ROLLBACK") /\ ~Has(req[p].log, "ROLLBACK!")
         /\ \E i \in DOMAIN db.products : db.products[i] = req[p].product.v

VariantsOf(id) == {v \in db.variants : v.product_id = id}
IsCommitted(id) == \E i \in DOMAIN db.products : db.products[i].id = id

\* C7: the store never holds a product with only some of its input variants,
\* nor variants of a product that is not committed; and a createProduct call
\* that ends in an error after a statement of its transaction failed has
\* left no row of its own in the store.
C7_AllOrNothing ==
  /\ \A id \in ProductIds :
       IF IsCommitted(id)
       THEN Cardinality(VariantsOf(id)) = db.want[id]
       ELSE VariantsOf(id) = {}
  /\ \A p \in Procs :
       (Creating(p) /\ req[p].pc = "done" /\ TxnFailed(req[p].log))
         => /\ req[p].ret.kind = "error"
            /\ req[p].product.kind = "value"
                 => /\ ~IsCommitted(req[p].product.v.id)
                    /\ VariantsOf(req[p].product.v.id) = {}

C7_Witness ==
  \E p \in Procs :
    /\ Creating(p) /\ req[p].pc = "done" /\ req[p].ret.kind = "error"
    /\ Has(req[p].log, "INSERT product") /\ Has(req[p].log, "INSERT variant!")
    /\ \E id \in ProductIds : IsCommitted(id) /\ db.want[id] > 0

\* the list a cache hit on products:{limit}:{offset} would carry had the
\* first n committed products been read and written to the cache
ListOf(n, limit, offset) ==
  Parse(Stringify(PayloadOf("products",
                            SelectProducts(CommittedAt(n), limit, offset))))
CurrentList(r) == ListOf(Len(db.products), r.limit, r.offset)
ListHit(r) == r.op = "products" /\ r.cached.kind = "value"
Settled == \A i \in DOMAIN db.age : db.age[i] > ListTTL

\* C8 as stated: when the store's products have not changed for longer than
\* the list TTL, a list read served from the cache returns the list the
\* store holds; it never returns one the store has disagreed with for longer
\* than the TTL, whatever the interleaving of reads and createProduct calls.
C8_Original ==
  [][\A p \in Procs :
       (Completes(p) /\ ListHit(req'[p]) /\ Settled)
         => req'[p].ret.v = CurrentList(req'[p])]_vars

\* C8 amended: every entry under a list key expires at most the list TTL
\* after it was written, and carries a list the store held at some moment
\* (the one its populating read queried), so a stale entry is gone once the
\* TTL has elapsed since its write; the time between that read's store query
\* and its cache write comes on top of the TTL and is not bounded by it.
C8_StaleEntriesExpire ==
  \A l \in Limits, o \in Offsets :
    LET e == redis[ProductsKey(l, o)] IN
    e.present
      => /\ e.ttl \in 1 .. ListTTL
         /\ \E n \in 0 .. Len(db.products) : Parse(e.str) = ListOf(n, l, o)

C8_Witness ==
  \E p \in Procs, q \in Procs :
    /\ req[p].pc = "done" /\ ListHit(req[p]) /\ req[p].log = <<"get">>
    /\ req[p].ret.v # CurrentList(req[p])
    /\ redis[req[p].key].present
    /\ Parse(redis[req[p].key].str) = req[p].ret.v
    /\ Creating(q) /\ req[q].pc = "done" /\ req[q].ret.kind = "value"
    /\ Has(req[q].log, "del")

\* C9 as stated: with the backing store reachable and the circuit closed,
\* get resolves, without throwing, to the deserialized entry of the key, or
\* to null when the key holds no entry.
C9_GetReturnsStored ==
  (lastCall.op = "get" /\ lastCall.upBefore /\ lastCall.stateBefore = "closed")
    => /\ lastCall.err = "none"
       /\ lastCall.value = IF lastCall.before.present
                           THEN Val(Parse(lastCall.before.str)) ELSE Null

\* C10 as stated: a get, set or del made while the circuit is open fails and
\* sends no command, PING included, to the backing store.
C10_OpenSendsNothing ==
  (lastCall.op \in {"get", "set", "del"} /\ lastCall.stateBefore = "open")
    => /\ lastCall.err # "none"
       /\ lastCall.sent = <<>>

StatementFailures == {"BEGIN!", "INSERT product!", "INSERT variant!", "COMMIT!"}
StatementFailed(log) == \E e \in StatementFailures : Has(log, e)

\* C11 as stated: a call in which a store query failed ends by throwing that
\* query's error, never another error and never a value; in createProduct a
\* ROLLBACK has been issued by then, and the same holds when the ROLLBACK
\* itself fails.
C11_StoreErrorPropagates ==
  \A p \in Procs :
    /\ (Reading(p) /\ req[p].pc = "done" /\ Has(req[p].log, "query!"))
         => req[p].ret = Thrown("StoreQueryFailed")
    /\ (Creating(p) /\ req[p].pc = "done" /\ StatementFailed(req[p].log))
         => /\ req[p].ret = Thrown(req[p].failed)
            /\ req[p].failed = "StoreQueryFailed"
            /\ Has(req[p].log, "ROLLBACK") \/ Has(req[p].log, "ROLLBACK!")

\* C12 as stated: a product(id) or category(product) lookup for which the
\* store yields no row ends in the not-found outcome, not in an error, and
\* has written nothing to the cache, so that the key is still absent for the
\* next identical lookup.
C12_NotFoundIsNotAnError ==
  [][\A p \in Procs :
       (Completes(p) /\ Has(req'[p].log, "query") /\ NotFound(req'[p]))
         => /\ req'[p].ret = ReturnedNull
            /\ ~Has(req'[p].log, "set") /\ ~Has(req'[p].log, "set!")
            /\ ~redis'[req'[p].key].present]_vars

\* the inputs the schema rejects: a price that is not positive, a negative stock
Rejected(input) == input.price <= 0 \/ input.stock < 0

\* C13: a createProduct call whose input fails validation rejects with the
\* validation error having done nothing else: it acquires no pooled
\* connection, issues no statement (no BEGIN) and no cache operation, and
\* the store and the cache are as they were.
C13_ValidationRejectsFirst ==
  /\ [](\A p \in Procs :
          (Creating(p) /\ Rejected(req[p].input))
            => /\ req[p].log \in {<<>>, <<"validate!">>}
               /\ req[p].pc \in {"validate", "done"}
               /\ req[p].pc = "done" => req[p].ret = Thrown("ValidationError"))
  /\ [][\A p \in Procs :
          (Creating(p) /\ Rejected(req[p].input) /\ req'[p] # req[p]
             /\ Creating(p)')
            => /\ redis' = redis /\ db' = db /\ circuit' = circuit
               /\ HeldClients' = HeldClients]_vars

C13_Witness ==
  \E p \in Procs :
    /\ Creating(p) /\ req[p].pc = "done" /\ Rejected(req[p].input)
    /\ req[p].log = <<"validate!">>
    /\ req[p].ret = Thrown("ValidationError")
    /\ Len(db.products) > 0
    /\ \E k \in ListKeys : redis[k].present

\* where in a call's log its transaction ended: a COMMIT that succeeded, or
\* the ROLLBACK of the catch block
TxnEnded(log) ==
  {i \in DOMAIN log : log[i] \in {"COMMIT", "ROLLBACK", "ROLLBACK!"}}

\* C14 as stated: in createProduct no cache call is awaited while the pooled
\* connection is held: the connection is released before the invalidation is
\* issued, and once COMMIT or ROLLBACK has completed the next thing the call
\* does is release the connection.
C14_ReleasedBeforeInvalidation ==
  \A p \in Procs :
    Creating(p) =>
      /\ \A i \in DOMAIN req[p].log :
           req[p].log[i] \in {"del", "del!"}
             => \E j \in 1 .. i - 1 : req[p].log[j] = "release"
      /\ \A i \in TxnEnded(req[p].log) :
           i < Len(req[p].log) => req[p].log[i + 1] = "release"

\* a step that is a call of RedisService.get, set or del which went through
\* the breaker, made with the backing store reachable and the circuit closed
HealthyCall(op) ==
  /\ lastCall'.op = op
  /\ circuit'.fires = circuit.fires + 1
  /\ redisUp /\ circuit.state = "closed"

\* C15 as stated: del(keys) completes without error, removes exactly the
\* entries under the literal keys given and leaves every other entry as it
\* was; on keys that hold no entry it changes nothing.
C15_DelRemovesExactly ==
  [][HealthyCall("del")
       => /\ lastCall'.err = "none"
          /\ \A k \in CacheKeys :
               redis'[k] = IF k \in lastCall'.keys THEN NoEntry ELSE redis[k]]_vars

\* C16 as stated: set(key, value, T) with T >= 1 leaves the value under key
\* with T seconds to live; get returns an entry whose time has not elapsed
\* and null for a key whose entry has expired or was never written.
C16_TTLBoundary ==
  [][/\ (HealthyCall("set") /\ lastCall'.ex >= 1)
          => /\ lastCall'.err = "none"
             /\ redis'[lastCall'.key] =
                  Entry(Stringify(lastCall'.arg.v), lastCall'.ex)
     /\ HealthyCall("get")
          => /\ lastCall'.err = "none"
             /\ redis[lastCall'.key].present
                  => /\ redis[lastCall'.key].ttl >= 1
                     /\ lastCall'.value = Val(Parse(redis[lastCall'.key].str))
             /\ ~redis[lastCall'.key].present => lastCall'.value = Null]_vars

\* the step in which a read that missed has written its payload to the cache
\* and returns
Populates(p) ==
  /\ Completes(p) /\ Reading(p)
  /\ req'[p].log = <<"get", "query", "set">>

\* C17 as stated: what a read that missed leaves in the cache is what it
\* returns, so that a hit on the entry (the parsed entry) equals the result
\* of the call that populated it.
C17_PayloadIsResult ==
  [][\A p \in Procs :
       Populates(p)
         => /\ redis'[req'[p].key].present
            /\ Parse(redis'[req'[p].key].str) = req'[p].ret.v]_vars

RECURSIVE Repeat(_, _)
Repeat(e, n) == IF n = 0 THEN <<>> ELSE <<e>> \o Repeat(e, n - 1)

Statements ==
  {"BEGIN", "INSERT product", "INSERT variant", "COMMIT", "ROLLBACK",
   "BEGIN!", "INSERT product!", "INSERT variant!", "COMMIT!", "ROLLBACK!"}
StatementCount(log) == Cardinality({i \in DOMAIN log : log[i] \in Statements})

Fired == circuit'.fires = circuit.fires + 1
FiredAndFailed == Fired /\ lastCall'.err # "none"
FiredAndSucceeded == Fired /\ lastCall'.err = "none"
Transition(from, to) == circuit.state = from /\ circuit'.state = to
SendsCommand ==
  /\ lastCall' # lastCall
  /\ \E i \in DOMAIN lastCall'.sent : lastCall'.sent[i] \in {"GET", "SET", "DEL"}

\* what a step may do to the circuit
AllowedTransition ==
  /\ (circuit'.state # circuit.state) =>
       (\/ /\ Transition("closed", "open") /\ FiredAndFailed
           /\ circuit'.failures * 100
                > ErrorThresholdPercentage * circuit'.fires
           /\ circuit'.cooldown = ResetTimeoutS
        \/ /\ Transition("open", "halfOpen") /\ ~Fired
           /\ lastCall' = lastCall
        \/ Transition("halfOpen", "closed") /\ FiredAndSucceeded
        \/ /\ Transition("halfOpen", "open") /\ FiredAndFailed
           /\ circuit'.cooldown = ResetTimeoutS)
  /\ Transition("open", "open") => circuit'.cooldown <= circuit.cooldown
  /\ SendsCommand => (Fired /\ circuit.state # "open")

\* C19: the circuit state changes only from closed to open, in a call that
\* failed and took the failures of the rolling window over 50% of its calls;
\* from open to half-open, in a step that makes no call, when what is left
\* of the 30 s cooldown set at opening has elapsed; from half-open to closed
\* in a call that succeeded; from half-open to open in a call that failed.
\* A GET, SET or DEL is sent only by a call that went through the breaker
\* while it was not open.
C19_BreakerTransitions ==
  /\ [](circuit.state = "open" => circuit.cooldown \in 1 .. ResetTimeoutS)
  /\ [][AllowedTransition]_vars

C19_Witness ==
  /\ circuit.state = "open"
  /\ lastCall.stateBefore = "halfOpen"
  /\ lastCall.err # "none"

\* a step that is a call of get, set or del, and the command the call is for
CallStep ==
  \/ lastCall' # lastCall /\ lastCall'.op \in {"get", "set", "del"}
  \/ Fired
CommandOf(op) == IF op = "get" THEN "GET" ELSE IF op = "set" THEN "SET" ELSE "DEL"

\* C20 as stated: a call made while the connected flag is false sends one
\* PING first; when the PING succeeds the flag becomes true and the call goes
\* on to send its command (unless the circuit is open); when it fails the
\* call fails with the PING's error, sends nothing more, does not reach the
\* breaker, and the flag stays false. A call made while the flag is true sends
\* no PING and leaves the flag true.
C20_PingWhenDisconnected ==
  [][CallStep =>
       IF ~isConnected
       THEN /\ Len(lastCall'.sent) >= 1 /\ lastCall'.sent[1] = "PING"
            /\ Count(lastCall'.sent, "PING") = 1
            /\ IF redisUp
               THEN /\ isConnected'
                    /\ Fired
                    /\ circuit.state # "open"
                         => lastCall'.sent = <<"PING", CommandOf(lastCall'.op)>>
               ELSE /\ lastCall'.err = "PingFailed"
                    /\ lastCall'.sent = <<"PING">>
                    /\ ~Fired /\ ~isConnected'
       ELSE /\ ~Has(lastCall'.sent, "PING")
            /\ isConnected']_vars

\* the ids of the products a products() or product() call returned
ReturnedIds(r) ==
  IF r.ret.kind # "value" THEN {}
  ELSE IF r.op = "products"
  THEN {r.ret.v.list[i].id : i \in DOMAIN r.ret.v.list}
  ELSE IF r.op = "product" THEN {r.ret.v.id}
  ELSE {}

\* C21 as stated: when a products() or product() call returns, from the cache
\* or from the store, the side table holds the raw row of every product the
\* call returned, so category() finds the row of any product a caller holds.
C21_SideTableCoversReturned ==
  [][\A p \in Procs :
       Completes(p)
         => \A id \in ReturnedIds(req'[p]) : productData'[id].kind = "value"]_vars

\* the expiry of each key family, by the shape of the entity cached under it
ShapeTTL(k) ==
  IF k \in ListKeys THEN 300
  ELSE IF k \in {ProductKey(i) : i \in ProductIds} THEN 3600
  ELSE IF k \in {CategoryKey(c) : c \in CategoryIds} THEN 3600
  ELSE 1800

\* C22: a read operation writes its entry with the expiry of its entity
\* shape (list 300 s, product 3600 s, category 3600 s, reviews 1800 s,
\* variants 1800 s), whatever its arguments; no entry in the cache is without
\* expiry, each has at most its shape's expiry left, and the time an entry
\* has left only shrinks unless the entry is written again.
C22_PositiveShapeExpiry ==
  /\ [](\A k \in CacheKeys :
          redis[k].present => redis[k].ttl \in 1 .. ShapeTTL(k))
  /\ [][\A p \in Procs :
          Populates(p) => redis'[req'[p].key].ttl = ShapeTTL(req'[p].key)]_vars
  /\ [][\A k \in CacheKeys :
          (redis[k].present /\ redis'[k].present /\ redis'[k].ttl > redis[k].ttl)
            => \E p \in Procs : Populates(p) /\ req'[p].key = k]_vars

C22_Witness ==
  /\ \E i \in ProductIds :
       redis[ProductKey(i)].present /\ redis[ProductKey(i)].ttl < 3600
  /\ \E p \in Procs :
       /\ req[p].op = "product" /\ req[p].pc = "done"
       /\ req[p].cached.kind = "value"

Call(op, limit, offset, id) ==
  [op |-> op, limit |-> limit, offset |-> offset, id |-> id]

\* the key the template of an operation gives for a call's arguments; the
\* category of a product is the category_id of its side-table row
StaticKey(c) ==
  IF c.op = "products" THEN ProductsKey(c.limit, c.offset)
  ELSE IF c.op = "product" THEN ProductKey(c.id)
  ELSE IF c.op = "reviews" THEN ReviewsKey(c.id)
  ELSE VariantsKey(c.id)
TemplateKey(c) ==
  IF c.op = "category" THEN CategoryKey(productData[c.id].v.category_id)
  ELSE StaticKey(c)

\* the read calls that can be made in the current state: those whose key
\* depends on the arguments alone, and the category() calls
StaticCalls ==
  {Call("products", l, o, 0) : l \in Limits, o \in Offsets}
    \cup {Call(op, 0, 0, i) : op \in {"product", "reviews", "variants"},
                              i \in ProductIds}
CategoryCalls ==
  {Call("category", 0, 0, i) :
     i \in {j \in ProductIds : productData[j].kind = "value"}}
Calls == StaticCalls \cup CategoryCalls
StaticKeysDistinct ==
  \A c \in StaticCalls, d \in StaticCalls : c # d => StaticKey(c) # StaticKey(d)

\* a read in flight uses the key of its template, and none of its steps
\* changes an entry under another key
UsesOwnKey ==
  \A p \in Procs :
    (Reading(p) /\ req[p].key # "")
      => req[p].key = TemplateKey(Call(req[p].op, req[p].limit,
                                       req[p].offset, req[p].id))
OwnKeyFrame ==
  \A p \in Procs :
    (Reading(p) /\ Reading(p)' /\ req'[p] # req[p] /\ req[p].pc # "done")
      => /\ req'[p].key = req[p].key
         /\ \A k \in CacheKeys : k # req[p].key => redis'[k] = redis[k]
         /\ req'[p].cached.kind = "value"
              => req'[p].cached.v = Parse(redis[req[p].key].str)

\* C23 as stated: every read uses the key of its template, touches no other
\* entry, and two different calls never have the same key.
C23_Original ==
  /\ [](UsesOwnKey
         /\ \A c \in Calls, d \in Calls :
              c # d => TemplateKey(c) # TemplateKey(d))
  /\ [][OwnKeyFrame]_vars

\* C23 amended: every read uses the key of its template, reads only the
\* entry under it and touches no other entry; two different calls have the
\* same key only when both are category() calls for products of the same
\* category, whose key is that category's.
C23_OneKeyPerCall ==
  /\ [](UsesOwnKey
         /\ StaticKeysDistinct
         /\ \A c \in CategoryCalls :
              /\ \A d \in StaticCalls : TemplateKey(c) # StaticKey(d)
              /\ \A d \in CategoryCalls :
                   TemplateKey(c) = TemplateKey(d)
                     => productData[c.id].v.category_id
                          = productData[d.id].v.category_id)
  /\ [][OwnKeyFrame]_vars

C23_Witness ==
  /\ \E p \in Procs :
       /\ req[p].op = "category" /\ req[p].pc = "done"
       /\ req[p].log = <<"get", "query", "set">>
       /\ redis[req[p].key].present
  /\ \E k \in ListKeys : redis[k].present
  /\ \E i \in ProductIds, j \in ProductIds :
       /\ i # j
       /\ productData[i].kind = "value" /\ productData[j].kind = "value"
       /\ productData[i].v.category_id = productData[j].v.category_id

Mutating(p) == req[p].op \in {"createProduct", "transaction"}
Holding(p) ==
  Mutating(p) /\ Has(req[p].log, "connect") /\ ~Has(req[p].log, "release")

\* C24: a createProduct or Database.transaction call obtains at most one
\* pooled client and releases it exactly once, as the last thing it does, on
\* every path; a call that has ended holds none, so with every call ended no
\* client is checked out, and the clients checked out never exceed the pool
\* maximum.
C24_ClientReleasedOnce ==
  /\ \A p \in Procs :
       Mutating(p) =>
         /\ Count(req[p].log, "connect") <= 1
         /\ Count(req[p].log, "release") <= Count(req[p].log, "connect")
         /\ Has(req[p].log, "release")
              => /\ req[p].pc = "done"
                 /\ req[p].log[Len(req[p].log)] = "release"
         /\ req[p].pc = "done"
              => Count(req[p].log, "release") = Count(req[p].log, "connect")
  /\ HeldClients = Cardinality({p \in Procs : Holding(p)})
  /\ HeldClients <= PoolMax
  /\ (\A p \in Procs : req[p].pc \in {"idle", "done"}) => HeldClients = 0

C24_Witness ==
  \E p \in Procs, q \in Procs :
    /\ req[p].op = "createProduct" /\ req[p].pc = "done"
    /\ Has(req[p].log, "del!") /\ Has(req[p].log, "ROLLBACK!")
    /\ Count(req[p].log, "release") = 1
    /\ req[q].op = "transaction" /\ req[q].pc = "done"
    /\ Has(req[q].log, "COMMIT!") /\ Has(req[q].log, "ROLLBACK")
    /\ Count(req[q].log, "release") = 1

\* C25 as stated: if from some point on the backing store stays reachable,
\* then, with calls and timers that keep occurring, the circuit is closed
\* again and again with the latest get, set or del having succeeded.
C25_RecoversAfterOutage ==
  (<>[]redisUp)
    => []<>(/\ circuit.state = "closed"
            /\ lastCall.op \in {"get", "set", "del"}
            /\ lastCall.err = "none")

SuppliedExpiries == Expiries \ {Undefined}

\* the entry the arrow function of set would leave under key, were it run
\* against the reachable backing store
WrittenBySet(key, value, ex) ==
  RunThunk(Thunk("set", key, {}, Stringify(value), ex), redis).redis[key]

\* C26 as stated: set with a supplied expiry, 0 included, made with the
\* backing store reachable and the circuit closed, writes an entry that is
\* subject to expiry; the write that set hands to the breaker carries an
\* expiry for every supplied value.
C26_SuppliedExpiryApplies ==
  /\ [][(HealthyCall("set") /\ lastCall'.ex \in SuppliedExpiries)
          => /\ lastCall'.err = "none"
             /\ redis'[lastCall'.key].present
             /\ redis'[lastCall'.key].ttl # NoExpiry]_vars
  /\ [](redisUp
         => \A k \in DirectKeys, v \in DirectValues, ex \in SuppliedExpiries :
              WrittenBySet(k, v, ex).ttl # NoExpiry)

\* C27 as stated: a close() that returns without error has quit the client's
\* connection and leaves the connected flag false, whatever connect, error
\* and end events came before it.
C27_CloseQuits ==
  [][(lastCall' # lastCall /\ lastCall'.op = "close" /\ lastCall'.err = "none")
       => /\ Has(lastCall'.sent, "QUIT")
          /\ ~isConnected']_vars

====
